---- MODULE Spec2Model ----
(***************************************************************************)
(* SBT (Spontaneous Breathing Trial) eligibility checker.                  *)
(*                                                                         *)
(* check_sbt_eligibility (src/sbt_checker.py) is modelled statement group  *)
(* by statement group, with a program counter; the Flask handler check     *)
(* (src/app.py) is modelled around it.  Python values are modelled as      *)
(* single-field records so that values of different Python types can be    *)
(* told apart: None, numbers, strings (sequences of one-character          *)
(* strings), floats and NaN.  Dictionaries are functions whose DOMAIN is   *)
(* the set of keys present.                                                *)
(*                                                                         *)
(* Timestamps use a scaled-down ISO-8601 text: one digit for the calendar  *)
(* date, the letter T, one digit for the time of day, then an optional     *)
(* zone ("Z" or "+00:00").  "1T0" is 00:00:00 of day 1.                    *)
(***************************************************************************)
EXTENDS Integers, Sequences, FiniteSets, TLC

VARIABLES
    request,            \* app.py: the body of the POST /check request
    form_data,          \* app.py: what request.get_json() returned
    response,           \* app.py: the (body, status) pair the handler returns
    patient_json,       \* the patient dictionary handed to check_sbt_eligibility
    check_date,         \* the check_date argument (None: defaults to today)
    pc,                 \* position in the code
    i,                  \* index of the vital a loop over vitals is at
    latest_vital,       \* index in vitals of latest_vital, 0 for None
    latest_timestamp,   \* latest_timestamp: None or a datetime
    ret,                \* what check_sbt_eligibility returned
    exc                 \* the exception that is propagating, if any

vars == <<request, form_data, response, patient_json, check_date, pc, i,
          latest_vital, latest_timestamp, ret, exc>>

\* what only the handler in app.py writes
handler_vars == <<request, form_data, response>>

-----------------------------------------------------------------------------
(* Python values *)

None == [null |-> TRUE]
Num(n) == [num |-> n]
Str(s) == [str |-> s]
Float(n) == [float |-> n]
NaN == [nan |-> TRUE]

IsStr(v) == DOMAIN v = {"str"}
IsNum(v) == DOMAIN v = {"num"}
IsFloat(v) == DOMAIN v = {"float"}

EmptyDict == [k \in {} |-> None]

\* dict.get(key, default)
Get(d, key, default) == IF key \in DOMAIN d THEN d[key] ELSE default

\* the dictionary with the keys of a and of b (a's value for a key of both)
Merge(a, b) == [k \in DOMAIN a \cup DOMAIN b |-> IF k \in DOMAIN a THEN a[k] ELSE b[k]]

\* bool(v): None, "", 0 and an empty dictionary are false
Truthy(v) ==
    IF v = None THEN FALSE
    ELSE IF IsStr(v) THEN v.str # <<>>
    ELSE IF IsNum(v) THEN v.num # 0
    ELSE DOMAIN v # {}

-----------------------------------------------------------------------------
(* Python strings *)

UpperCase == <<"A","B","C","D","E","F","G","H","I","J","K","L","M",
               "N","O","P","Q","R","S","T","U","V","W","X","Y","Z">>
LowerCase == <<"a","b","c","d","e","f","g","h","i","j","k","l","m",
               "n","o","p","q","r","s","t","u","v","w","x","y","z">>
Digits == <<"0","1","2","3","4","5","6","7","8","9">>
Whitespace == {" "}

LowerChar(c) ==
    IF \E k \in DOMAIN UpperCase : UpperCase[k] = c
    THEN LowerCase[CHOOSE k \in DOMAIN UpperCase : UpperCase[k] = c]
    ELSE c

\* str.lower()
Lower(s) == [k \in 1..Len(s) |-> LowerChar(s[k])]

\* sub in s
Contains(sub, s) ==
    \E k \in 0..(Len(s) - Len(sub)) : SubSeq(s, k + 1, k + Len(sub)) = sub

RECURSIVE LStrip(_)
LStrip(s) == IF s # <<>> /\ Head(s) \in Whitespace THEN LStrip(Tail(s)) ELSE s

RECURSIVE RStrip(_)
RStrip(s) ==
    IF s # <<>> /\ s[Len(s)] \in Whitespace
    THEN RStrip(SubSeq(s, 1, Len(s) - 1)) ELSE s

\* str.strip()
Strip(s) == RStrip(LStrip(s))

\* str.replace(old, new) for a one-character old
RECURSIVE Replace(_, _, _)
Replace(s, old, new) ==
    IF s = <<>> THEN <<>>
    ELSE (IF Head(s) = old THEN new ELSE <<Head(s)>>) \o Replace(Tail(s), old, new)

IsDigit(c) == \E k \in DOMAIN Digits : Digits[k] = c
DigitVal(c) == (CHOOSE k \in DOMAIN Digits : Digits[k] = c) - 1

RECURSIVE Decimal(_)
Decimal(s) == IF s = <<>> THEN 0 ELSE Decimal(SubSeq(s, 1, Len(s) - 1)) * 10 + DigitVal(s[Len(s)])

\* float(v): a float, NaN, or "raises" for ValueError/TypeError
ValueError == [raises |-> "ValueError"]
PyFloat(v) ==
    IF IsNum(v) THEN Float(v.num)
    ELSE IF IsStr(v) THEN
        LET s == Strip(v.str) IN
        IF s # <<>> /\ \A k \in 1..Len(s) : IsDigit(s[k]) THEN Float(Decimal(s))
        ELSE IF Lower(s) = <<"n","a","n">> THEN NaN
        ELSE ValueError
    ELSE ValueError

\* a < n and a >= n on floats; every comparison with NaN is False
FloatLT(a, n) == IsFloat(a) /\ a.float < n
FloatGE(a, n) == IsFloat(a) /\ a.float >= n

-----------------------------------------------------------------------------
(* datetime *)

ZoneUTC == <<"+","0","0",":","0","0">>

\* datetime.fromisoformat(s): a datetime or ValueError
FromIsoFormat(s) ==
    IF Len(s) >= 3 /\ IsDigit(s[1]) /\ s[2] = "T" /\ IsDigit(s[3])
       /\ (Len(s) = 3 \/ SubSeq(s, 4, Len(s)) = ZoneUTC)
    THEN [day |-> DigitVal(s[1]), tick |-> DigitVal(s[3]), aware |-> Len(s) > 3]
    ELSE ValueError

IsDatetime(d) == "day" \in DOMAIN d

\* the argument of fromisoformat at lines 45 and 99
ZReplaced(s) == IF Contains(<<"Z">>, s) THEN Replace(s, "Z", ZoneUTC) ELSE s

\* datetime.fromisoformat(timestamp_str.replace('Z', '+00:00') if 'Z' in timestamp_str else timestamp_str)
ParseTimestamp(timestamp_str) == FromIsoFormat(ZReplaced(timestamp_str.str))

\* a < b, a > b between datetimes raise TypeError when exactly one is aware
Comparable(a, b) == a.aware = b.aware
DatetimeLT(a, b) == a.day < b.day \/ (a.day = b.day /\ a.tick < b.tick)
\* mutant of DatetimeGT: >= in place of >
DatetimeGT_or_equal(a, b) == ~DatetimeLT(a, b)
DatetimeGT(a, b) == DatetimeLT(b, a)

\* datetime.combine(check_date, time.min)
CombineMin(d) == [day |-> d.date, tick |-> 0, aware |-> FALSE]

-----------------------------------------------------------------------------
(* Bounds, and what the environment supplies: the calendar dates explored   *)
(* (day 1, on which the sample timestamps lie, and the day after) and the  *)
(* texts datetime.now().isoformat() can give                               *)

MaxVitals == 2
MaxMeds == 2

Dates == {1, 2}
Clock == {Str(<<"2","T","0">>), Str(<<"2","T","1">>)}

-----------------------------------------------------------------------------
(* check_sbt_eligibility, src/sbt_checker.py *)

Pending == [pending |-> TRUE]
NoRequest == [norequest |-> TRUE]

\* vitals = patient_json.get('vitals', [])
Vitals == Get(patient_json, "vitals", <<>>)

\* active_medications = orders.get('active', {}).get('medications', [])
ActiveMedications ==
    LET orders == Get(patient_json, "orders", EmptyDict)
    IN  Get(Get(orders, "active", EmptyDict), "medications", <<>>)

\* the thresholds of conditions 1 and 3
FiO2Limit == 60
PEEPLimit == 10
HRLimit == 120

\* lines 60-68: float(x) if x is not None else None, None on ValueError/TypeError
ToNum(v) ==
    IF v = None THEN None
    ELSE IF PyFloat(v) = ValueError THEN None ELSE PyFloat(v)

\* lines 70-74: condition 1 on the latest vital
Condition1Fails(vital) ==
    LET days_fio2_num == ToNum(Get(vital, "daysFiO2", None))
        days_vent_peep_num == ToNum(Get(vital, "daysVentPEEP", None))
    IN  \/ days_fio2_num = None \/ FloatGE(days_fio2_num, FiO2Limit)
        \/ days_vent_peep_num = None \/ FloatGE(days_vent_peep_num, PEEPLimit)

\* line 82: medication.get('name', '').lower() if medication.get('name') else ''
MedName(medication) ==
    IF Truthy(Get(medication, "name", None))
    THEN Lower(Get(medication, "name", Str(<<>>)).str)
    ELSE <<>>

Noradrenaline == <<"n","o","r","a","d","r","e","n","a","l","i","n","e">>

\* lines 80-85
has_noradrenaline ==
    \E k \in 1..Len(ActiveMedications) :
        Contains(Noradrenaline, MedName(ActiveMedications[k]))

\* lines 105-117: the vital violates condition 3
Condition3Hit(vital) ==
    /\ Get(vital, "daysVentBreathSequence", None) = Str(<<"c","s","v">>)
    /\ FloatLT(ToNum(Get(vital, "daysHR", None)), HRLimit)

\* mutant of full_name: the joined names are not stripped
full_name_unstripped ==
    LET patient_name == Get(patient_json, "name", Str(<<>>))
        patient_lastname == Get(patient_json, "lastName", Str(<<>>))
    IN  IF Truthy(patient_name) \/ Truthy(patient_lastname)
        THEN Str(patient_name.str \o <<" ">> \o patient_lastname.str)
        ELSE Str(<<>>)

\* line 124
full_name ==
    LET patient_name == Get(patient_json, "name", Str(<<>>))
        patient_lastname == Get(patient_json, "lastName", Str(<<>>))
    IN  IF Truthy(patient_name) \/ Truthy(patient_lastname)
        THEN Str(Strip(patient_name.str \o <<" ">> \o patient_lastname.str))
        ELSE Str(<<>>)

Message == "Please order a SBT for this patient as patient is not on noradrenaline, and fio2 is less than 0.6 with a peep less than 10"

\* lines 126-136
task(now) ==
    [createdBy |-> "SBT agent",
     CPMRN |-> Get(patient_json, "CPMRN", Str(<<>>)),
     patientName |-> full_name,
     hospital |-> Get(patient_json, "hospitalName", Str(<<>>)),
     unit |-> Get(patient_json, "unitName", Str(<<>>)),
     BedNumber |-> Get(patient_json, "bedNo", Str(<<>>)),
     createdAt |-> now,
     Urgency |-> "Low",
     Message |-> Message]

IsTask(r) == "createdBy" \in DOMAIN r

Return(value) ==
    /\ ret' = value
    /\ pc' = "returned"

Raise(e) ==
    /\ exc' = e
    /\ pc' = "raised"
    /\ UNCHANGED ret

\* lines 28-34: default check_date, read vitals, return None when there are none
Start ==
    /\ pc = "start"
    /\ IF check_date = None
       THEN \E today \in Dates : check_date' = [date |-> today]
       ELSE UNCHANGED check_date
    /\ IF Vitals = <<>>
       THEN Return(None) /\ UNCHANGED i
       ELSE pc' = "scan" /\ i' = 1 /\ UNCHANGED ret
    /\ UNCHANGED handler_vars /\ UNCHANGED <<patient_json, latest_vital, latest_timestamp, exc>>

\* after the body of a loop over vitals: the next vital, or the statement after the loop
NextVital(after) ==
    IF i < Len(Vitals) THEN i' = i + 1 /\ pc' = pc ELSE i' = 1 /\ pc' = after

\* lines 40-50: one iteration of the scan for the latest vital
ScanVital ==
    /\ pc = "scan"
    /\ LET timestamp_str == Get(Vitals[i], "timestamp", None)
           vital_timestamp == ParseTimestamp(timestamp_str)
       IN  IF ~Truthy(timestamp_str) \/ vital_timestamp = ValueError
           THEN NextVital("gate1") /\ UNCHANGED <<latest_vital, latest_timestamp, ret, exc>>
           ELSE IF latest_timestamp = None
           THEN /\ latest_timestamp' = vital_timestamp
                /\ latest_vital' = i
                /\ NextVital("gate1")
                /\ UNCHANGED <<ret, exc>>
           ELSE IF ~Comparable(vital_timestamp, latest_timestamp)
           THEN Raise("TypeError") /\ UNCHANGED <<i, latest_vital, latest_timestamp>>
           ELSE IF DatetimeGT(vital_timestamp, latest_timestamp)
           THEN /\ latest_timestamp' = vital_timestamp
                /\ latest_vital' = i
                /\ NextVital("gate1")
                /\ UNCHANGED <<ret, exc>>
           ELSE NextVital("gate1") /\ UNCHANGED <<latest_vital, latest_timestamp, ret, exc>>
    /\ UNCHANGED handler_vars /\ UNCHANGED <<patient_json, check_date>>

\* lines 52-74: no latest vital, or condition 1 fails on it: return None
Gate1 ==
    /\ pc = "gate1"
    /\ IF latest_vital = 0 \/ Condition1Fails(Vitals[latest_vital])
       THEN Return(None)
       ELSE pc' = "gate2" /\ UNCHANGED ret
    /\ UNCHANGED handler_vars /\ UNCHANGED <<patient_json, check_date, i,
                   latest_vital, latest_timestamp, exc>>

\* lines 76-88: condition 2
Gate2 ==
    /\ pc = "gate2"
    /\ IF has_noradrenaline
       THEN Return(None)
       ELSE pc' = "gate3" /\ UNCHANGED ret
    /\ UNCHANGED handler_vars /\ UNCHANGED <<patient_json, check_date, i,
                   latest_vital, latest_timestamp, exc>>

\* lines 91-119: one iteration of the scan for condition 3
Gate3Vital ==
    /\ pc = "gate3"
    /\ LET check_datetime_start == CombineMin(check_date)
           timestamp_str == Get(Vitals[i], "timestamp", None)
           vital_timestamp == ParseTimestamp(timestamp_str)
       IN  IF ~Truthy(timestamp_str) \/ vital_timestamp = ValueError
           THEN NextVital("build") /\ UNCHANGED <<ret, exc>>
           ELSE IF ~Comparable(vital_timestamp, check_datetime_start)
           THEN Raise("TypeError") /\ UNCHANGED i
           ELSE IF DatetimeLT(vital_timestamp, check_datetime_start)
           THEN NextVital("build") /\ UNCHANGED <<ret, exc>>
           ELSE IF Condition3Hit(Vitals[i])
           THEN Return(None) /\ UNCHANGED <<i, exc>>
           ELSE NextVital("build") /\ UNCHANGED <<ret, exc>>
    /\ UNCHANGED handler_vars /\ UNCHANGED <<patient_json, check_date,
                   latest_vital, latest_timestamp>>

\* lines 121-138: all conditions met, build and return the task
BuildTask ==
    /\ pc = "build"
    /\ \E now \in Clock : Return(task(now))
    /\ UNCHANGED handler_vars /\ UNCHANGED <<patient_json, check_date, i,
                   latest_vital, latest_timestamp, exc>>

check_sbt_eligibility ==
    \/ Start
    \/ ScanVital
    \/ Gate1
    \/ Gate2
    \/ Gate3Vital
    \/ BuildTask

-----------------------------------------------------------------------------
(* check, the POST /check handler, src/app.py *)

\* the request bodies: not JSON, no JSON body at all, or a JSON value
InvalidBody == [invalid |-> TRUE]
NoBody == [nobody |-> TRUE]
JsonBody(v) == [json |-> v]

IsDict(v) == v # None /\ ~IsStr(v) /\ ~IsNum(v)

Respond(body, status) ==
    /\ response' = [body |-> body, status |-> status]
    /\ pc' = "responded"

NotEligible == [message |-> "Patient does not meet SBT eligibility criteria"]

\* lines 23-26: request.get_json() raises on a body that is not JSON; without a
\* JSON body it raises or gives None, depending on the Flask release; falsy data
\* is answered 400
GetJson ==
    /\ pc = "check"
    /\ \/ /\ request = InvalidBody
          /\ Raise("BadRequest")
          /\ UNCHANGED <<form_data, response>>
       \/ /\ request = NoBody
          /\ Raise("UnsupportedMediaType")
          /\ UNCHANGED <<form_data, response>>
       \/ /\ request = NoBody
          /\ form_data' = None
          /\ Respond([error |-> "No data provided"], 400)
          /\ UNCHANGED <<ret, exc>>
       \/ /\ "json" \in DOMAIN request
          /\ form_data' = request.json
          /\ IF ~Truthy(request.json)
             THEN Respond([error |-> "No data provided"], 400)
             ELSE pc' = "construct" /\ UNCHANGED response
          /\ UNCHANGED <<ret, exc>>
    /\ UNCHANGED <<request, patient_json, check_date, i, latest_vital, latest_timestamp>>

\* mutant of MedicationOrders: the name is appended as given, not stripped
MedicationOrders_unstripped(medications) ==
    LET kept == SelectSeq(medications, LAMBDA med_name :
                    Truthy(med_name) /\ Strip(med_name.str) # <<>>)
    IN  [k \in 1..Len(kept) |-> [name |-> kept[k]]]

\* lines 46-50: the medication orders built from the names in the payload
MedicationOrders(medications) ==
    LET kept == SelectSeq(medications, LAMBDA med_name :
                    Truthy(med_name) /\ Strip(med_name.str) # <<>>)
    IN  [k \in 1..Len(kept) |-> [name |-> Str(Strip(kept[k].str))]]

\* lines 53-60: the entry built from latestVital, if it is given
LatestVitalEntries(latest_vital_data) ==
    IF Truthy(latest_vital_data)
    THEN <<[timestamp |-> Get(latest_vital_data, "timestamp", None),
            daysFiO2 |-> Get(latest_vital_data, "daysFiO2", None),
            daysVentPEEP |-> Get(latest_vital_data, "daysVentPEEP", None)]>>
    ELSE <<>>

\* mutant of OtherVitalEntry: every key of the payload entry is copied
OtherVitalEntry_all_keys(vital) ==
    Merge([timestamp |-> Get(vital, "timestamp", None)], vital)

\* lines 65-71: the entry built from one of the other vitals
OtherVitalEntry(vital) ==
    LET copied == DOMAIN vital \cap {"daysVentBreathSequence", "daysHR"}
    IN  Merge([timestamp |-> Get(vital, "timestamp", None)],
              [k \in copied |-> vital[k]])

\* lines 29-72
ConstructedPatient ==
    LET others == Get(form_data, "vitals", <<>>)
    IN  [CPMRN |-> Get(form_data, "CPMRN", Str(<<>>)),
         name |-> Get(form_data, "name", Str(<<>>)),
         lastName |-> Get(form_data, "lastName", Str(<<>>)),
         hospitalName |-> Get(form_data, "hospitalName", Str(<<>>)),
         unitName |-> Get(form_data, "unitName", Str(<<>>)),
         bedNo |-> Get(form_data, "bedNo", Str(<<>>)),
         orders |-> [active |-> [medications |->
                        MedicationOrders(Get(form_data, "medications", <<>>))]],
         vitals |-> LatestVitalEntries(Get(form_data, "latestVital", EmptyDict))
                    \o [k \in 1..Len(others) |-> OtherVitalEntry(others[k])]]

\* lines 28-75: build patient_json and call check_sbt_eligibility(patient_json);
\* form_data.get raises AttributeError when the JSON value is not an object
Construct ==
    /\ pc = "construct"
    /\ IF IsDict(form_data)
       THEN /\ patient_json' = ConstructedPatient
            /\ check_date' = None
            /\ pc' = "start"
            /\ UNCHANGED <<ret, exc>>
       ELSE Raise("AttributeError") /\ UNCHANGED <<patient_json, check_date>>
    /\ UNCHANGED <<request, form_data, response, i, latest_vital, latest_timestamp>>

\* lines 77-80: the task, or the message that the criteria are not met
Result ==
    /\ pc = "returned"
    /\ request # NoRequest
    /\ IF Truthy(ret) THEN Respond(ret, 200) ELSE Respond(NotEligible, 200)
    /\ UNCHANGED <<request, form_data, patient_json, check_date, i,
                   latest_vital, latest_timestamp, ret, exc>>

\* lines 82-83: except Exception
Except ==
    /\ pc = "raised"
    /\ request # NoRequest
    /\ Respond([error |-> <<"Server error: ", exc>>], 500)
    /\ UNCHANGED <<request, form_data, patient_json, check_date, i,
                   latest_vital, latest_timestamp, ret, exc>>

check ==
    \/ GetJson
    \/ Construct
    \/ Result
    \/ Except

-----------------------------------------------------------------------------
(* The inputs explored *)

\* the lists of n elements of S
Lists(S, n) == [1..n -> S]

Csv == Str(<<"c","s","v">>)

\* readings of a vital: conditions 1 and 3 at, below and above their thresholds,
\* as numbers and as strings, absent, NaN and uncoercible
ReadingInputs ==
    {[daysFiO2 |-> Num(50), daysVentPEEP |-> Num(5)],
     [daysFiO2 |-> Num(60), daysVentPEEP |-> Num(5)],
     [daysFiO2 |-> Str(<<"7","0">>), daysVentPEEP |-> Num(5)],
     [daysFiO2 |-> Str(<<"5","9">>), daysVentPEEP |-> Num(10)],
     [daysFiO2 |-> Str(<<"n","a","n">>), daysVentPEEP |-> Str(<<"9">>)],
     [daysFiO2 |-> Num(50), daysVentPEEP |-> Str(<<"x">>)],
     [daysVentBreathSequence |-> Csv, daysHR |-> Num(100)],
     [daysVentBreathSequence |-> Csv, daysHR |-> Num(120)],
     [daysFiO2 |-> Num(50), daysVentPEEP |-> Num(5),
      daysVentBreathSequence |-> Csv, daysHR |-> Str(<<"1","1","9">>)],
     [daysFiO2 |-> Num(50), daysVentPEEP |-> Num(5),
      daysVentBreathSequence |-> Csv, daysHR |-> Str(<<"x">>)],
     [daysFiO2 |-> Num(50), daysVentPEEP |-> Num(5), daysVentBreathSequence |-> Csv],
     [daysFiO2 |-> Num(50), daysVentPEEP |-> Num(5),
      daysVentBreathSequence |-> Str(<<"s","i","m","v">>), daysHR |-> Num(100)]}

\* the readings tried with a timestamp that has a trailing Z
ZuluReadingInputs ==
    {[daysFiO2 |-> Num(50), daysVentPEEP |-> Num(5)],
     [daysFiO2 |-> Num(60), daysVentPEEP |-> Num(5)],
     [daysVentBreathSequence |-> Csv, daysHR |-> Num(100)]}

\* the readings tried without a usable timestamp
SkippedReadingInputs ==
    {[daysFiO2 |-> Num(50), daysVentPEEP |-> Num(5)],
     [daysVentBreathSequence |-> Csv, daysHR |-> Num(100)]}

\* zone-less timestamps: 00:00 and 01:00 of day 1
NaiveTimestamps == {Str(<<"1","T","0">>), Str(<<"1","T","1">>)}
\* a timestamp with a trailing Z: 01:00Z of day 1
ZuluTimestamps == {Str(<<"1","T","1","Z">>)}
\* no usable timestamp: key absent, unparsable text
NoTimestamps == {EmptyDict, [timestamp |-> Str(<<"b","a","d">>)]}

VitalInputs ==
    {Merge([timestamp |-> t], r) : t \in NaiveTimestamps, r \in ReadingInputs}
    \cup {Merge([timestamp |-> t], r) : t \in ZuluTimestamps, r \in ZuluReadingInputs}
    \cup {Merge(t, r) : t \in NoTimestamps, r \in SkippedReadingInputs}

IVNoradrenaline ==
    Str(<<"I","V"," ","N","o","r","a","d","r","e","n","a","l","i","n","e"," ",
          "b","i","t","a","r","t","r","a","t","e">>)

\* medication orders: no name, name None, a match inside a longer mixed-case name,
\* an upper-case match, and a near miss
MedInputs ==
    {EmptyDict,
     [name |-> None],
     [name |-> IVNoradrenaline],
     [name |-> Str(<<"N","O","R","A","D","R","E","N","A","L","I","N","E">>)],
     [name |-> Str(<<"n","o","r","a","d","r","e","n","a","l","i","n">>)]}

\* patient names: empty, plain, padded with blanks, blank
NameInputs == {Str(<<>>), Str(<<"A">>), Str(<<" ","B"," ">>), Str(<<" ">>)}

OptionalKey(key, values) == {EmptyDict} \cup {[k \in {key} |-> v] : v \in values}

IdentInputs ==
    {Merge(Merge(Merge(n, l), Merge(c, h)), Merge(u, b)) :
        n \in OptionalKey("name", NameInputs),
        l \in OptionalKey("lastName", NameInputs),
        c \in OptionalKey("CPMRN", {Str(<<"7">>)}),
        h \in OptionalKey("hospitalName", {Str(<<"H">>)}),
        u \in OptionalKey("unitName", {Str(<<"U">>)}),
        b \in OptionalKey("bedNo", {Str(<<"4">>)})}

PatientOf(ident, vitals, meds) ==
    Merge(ident, [vitals |-> vitals, orders |-> [active |-> [medications |-> meds]]])

OkVital == [timestamp |-> Str(<<"1","T","1">>), daysFiO2 |-> Num(50), daysVentPEEP |-> Num(5)]

\* Every list of vitals against no medication and one noradrenaline order; every
\* list of medications against every list of at most one vital; every identity
\* against one eligible record; and the records with keys left out altogether.
IsPatientInput(p) ==
    \/ \E n \in 0..MaxVitals : \E v \in Lists(VitalInputs, n) :
       \E m \in {<<>>, <<[name |-> IVNoradrenaline]>>} :
          p = PatientOf(EmptyDict, v, m)
    \/ \E n \in 0..1 : \E v \in Lists(VitalInputs, n) :
       \E k \in 0..MaxMeds : \E m \in Lists(MedInputs, k) :
          p = PatientOf(EmptyDict, v, m)
    \/ \E id \in IdentInputs : p = PatientOf(id, <<OkVital>>, <<>>)
    \/ p \in {EmptyDict, [vitals |-> <<OkVital>>],
              [vitals |-> <<OkVital>>, orders |-> EmptyDict],
              [vitals |-> <<OkVital>>, orders |-> [active |-> EmptyDict]]}

CheckDateInputs == {None} \cup {[date |-> d] : d \in Dates}

Init ==
    /\ request = NoRequest
    /\ form_data = NoRequest
    /\ response = NoRequest
    /\ IsPatientInput(patient_json)
    /\ check_date \in CheckDateInputs
    /\ pc = "start"
    /\ i = 1
    /\ latest_vital = 0
    /\ latest_timestamp = None
    /\ ret = Pending
    /\ exc = "none"

Next == check_sbt_eligibility

Spec == Init /\ [][Next]_vars

-----------------------------------------------------------------------------
(* The vocabulary of the claims, stated from the specification *)

Returned == pc = "returned"
Raised == pc = "raised"
Finished == Returned \/ Raised
ReturnedTask == Returned /\ IsTask(ret)
ReturnedAbsent == Returned /\ ret = None

\* the timestamp of a vital read as ISO-8601, a trailing Z standing for UTC;
\* ValueError when absent or unparsable
TimestampOf(vital) ==
    LET t == Get(vital, "timestamp", None)
    IN  IF t = None \/ ~IsStr(t) \/ t.str = <<>> THEN ValueError
        ELSE IF t.str[Len(t.str)] = "Z"
        THEN FromIsoFormat(SubSeq(t.str, 1, Len(t.str) - 1) \o ZoneUTC)
        ELSE FromIsoFormat(t.str)

Parseable(vital) == IsDatetime(TimestampOf(vital))

\* position of an instant on the time line, one convention for every timestamp
Instant(d) == <<d.day, d.tick>>
Before(a, b) == a[1] < b[1] \/ (a[1] = b[1] /\ a[2] < b[2])

\* the first vital, in list order, whose parseable timestamp no other exceeds; 0 if none
SpecLatest ==
    LET at == [k \in 1..Len(Vitals) |-> TimestampOf(Vitals[k])]
        parseable == {k \in 1..Len(Vitals) : IsDatetime(at[k])}
    IN  IF parseable = {} THEN 0
        ELSE CHOOSE k \in parseable :
                \A j \in parseable :
                    /\ ~Before(Instant(at[k]), Instant(at[j]))
                    /\ j < k => Before(Instant(at[j]), Instant(at[k]))

\* v coerces to a number strictly below n
CoercesBelow(v, n) == v # None /\ IsFloat(PyFloat(v)) /\ PyFloat(v).float < n

SpecGate1(vital) ==
    /\ CoercesBelow(Get(vital, "daysFiO2", None), 60)
    /\ CoercesBelow(Get(vital, "daysVentPEEP", None), 10)

\* some medication name contains "noradrenaline" after lower-casing
SpecNoradrenaline ==
    \E k \in 1..Len(ActiveMedications) :
        LET n == Get(ActiveMedications[k], "name", None)
        IN  n # None /\ Contains(Noradrenaline, Lower(n.str))

\* midnight of checkDate, once the default has been applied
WindowStart == <<check_date.date, 0>>

\* vital k is at or after midnight of checkDate, "csv", with a numeric daysHR below 120
SpecGate3Hit(k) ==
    /\ Parseable(Vitals[k])
    /\ ~Before(Instant(TimestampOf(Vitals[k])), WindowStart)
    /\ Get(Vitals[k], "daysVentBreathSequence", None) = Csv
    /\ CoercesBelow(Get(Vitals[k], "daysHR", None), 120)

SpecGate3 == \E k \in 1..Len(Vitals) : SpecGate3Hit(k)

-----------------------------------------------------------------------------
(* Claims about check_sbt_eligibility *)

\* C1: evaluate never raises: it always ends by returning a Task or Absent.
C1_NeverRaises == ~Raised /\ exc = "none"

\* C2: whenever evaluate returns a Task, the latest vital has a daysFiO2 that
\* coerces to a number strictly below 60 and a daysVentPEEP that coerces to a
\* number strictly below 10.
C2_Gate1Necessary ==
    ReturnedTask => SpecLatest # 0 /\ SpecGate1(Vitals[SpecLatest])

\* C3: if any medication name contains "noradrenaline" after lower-casing, the
\* result of evaluate is Absent.
C3_Gate2Necessary == Finished /\ SpecNoradrenaline => ReturnedAbsent

\* C4: if any vital at or after midnight of checkDate is "csv" with a daysHR that
\* coerces to a number below 120, the result of evaluate is Absent.
C4_Gate3Necessary == Finished /\ SpecGate3 => ReturnedAbsent

\* C5: the vital gate 1 reads is the one with the maximum parseable timestamp, the
\* first in the list among equal maxima, vitals without a parseable timestamp
\* being skipped; with no vitals or no parseable timestamp the result is Absent.
C5_LatestVitalChoice ==
    /\ pc \in {"gate1", "gate2", "gate3", "build", "returned"} => latest_vital = SpecLatest
    /\ Finished /\ SpecLatest = 0 => ReturnedAbsent

\* C5 witness: gate 1 is about to read the first of two different vitals with
\* equal timestamps.
C5_Witness ==
    /\ pc = "gate1"
    /\ Len(Vitals) = 2
    /\ Parseable(Vitals[1]) /\ Parseable(Vitals[2])
    /\ TimestampOf(Vitals[1]) = TimestampOf(Vitals[2])
    /\ Vitals[1] # Vitals[2]
    /\ latest_vital = 1

\* C6: evaluate returns a Task whenever the latest vital passes gate 1, no
\* medication name contains "noradrenaline" and no vital at or after midnight of
\* checkDate is "csv" with a numeric daysHR below 120.
C6_GatesSufficient ==
    Finished /\ SpecLatest # 0 /\ SpecGate1(Vitals[SpecLatest])
             /\ ~SpecNoradrenaline /\ ~SpecGate3
        => ReturnedTask

\* the value of an identity key, the empty string when the key is absent
OrEmpty(key) == IF key \in DOMAIN patient_json THEN patient_json[key] ELSE Str(<<>>)

\* name and lastName joined with one space and trimmed; only the present one
\* when the other is absent; empty when both are absent
SpecPatientName ==
    IF "name" \in DOMAIN patient_json /\ "lastName" \in DOMAIN patient_json
    THEN Str(Strip(patient_json["name"].str \o <<" ">> \o patient_json["lastName"].str))
    ELSE IF "name" \in DOMAIN patient_json THEN Str(Strip(patient_json["name"].str))
    ELSE IF "lastName" \in DOMAIN patient_json THEN Str(Strip(patient_json["lastName"].str))
    ELSE Str(<<>>)

\* C7: every Task has createdBy "SBT agent", Urgency "Low", the fixed Message,
\* the patient's CPMRN, hospitalName, unitName and bedNo (empty string when
\* absent), and patientName = name and lastName joined by one space and trimmed.
C7_TaskFields ==
    ReturnedTask =>
        /\ ret.createdBy = "SBT agent"
        /\ ret.Urgency = "Low"
        /\ ret.Message = "Please order a SBT for this patient as patient is not on noradrenaline, and fio2 is less than 0.6 with a peep less than 10"
        /\ ret.CPMRN = OrEmpty("CPMRN")
        /\ ret.hospital = OrEmpty("hospitalName")
        /\ ret.unit = OrEmpty("unitName")
        /\ ret.BedNumber = OrEmpty("bedNo")
        /\ ret.patientName = SpecPatientName

\* C7 witness: a Task for a patient with a blank-padded lastName and no name,
\* a hospitalName and no bedNo.
C7_Witness ==
    /\ ReturnedTask
    /\ "name" \notin DOMAIN patient_json
    /\ "bedNo" \notin DOMAIN patient_json
    /\ Get(patient_json, "lastName", None) = Str(<<" ","B"," ">>)
    /\ ret.patientName = Str(<<"B">>)
    /\ ret.hospital = Str(<<"H">>)
    /\ ret.BedNumber = Str(<<>>)

-----------------------------------------------------------------------------
(* How far C2, C3, C4 and C6 hold: everywhere but where the TypeError of C1 *)
(* is raised, and, for C2, where a reading is NaN                          *)

\* v coerces to a number that is not at or above n (NaN included)
NotAtOrAbove(v, n) ==
    v # None /\ PyFloat(v) # ValueError /\ ~(IsFloat(PyFloat(v)) /\ PyFloat(v).float >= n)

\* a Task is returned only if neither reading of the latest vital is missing,
\* uncoercible, or at or above its threshold
Lemma_Gate1 ==
    ReturnedTask =>
        /\ SpecLatest # 0
        /\ NotAtOrAbove(Get(Vitals[SpecLatest], "daysFiO2", None), 60)
        /\ NotAtOrAbove(Get(Vitals[SpecLatest], "daysVentPEEP", None), 10)

\* no Task is returned for a patient on noradrenaline
Lemma_Gate2 == ReturnedTask => ~SpecNoradrenaline

\* no Task is returned when a vital hits gate 3
Lemma_Gate3 == ReturnedTask => ~SpecGate3

\* when the three gates pass and evaluate returns, it returns a Task
Lemma_Sufficient ==
    Returned /\ SpecLatest # 0 /\ SpecGate1(Vitals[SpecLatest])
             /\ ~SpecNoradrenaline /\ ~SpecGate3
        => ReturnedTask

-----------------------------------------------------------------------------
(* The requests explored *)

\* latestVital of a payload
LatestVitalInputs ==
    {EmptyDict,
     [daysFiO2 |-> Num(50), daysVentPEEP |-> Num(5)],
     [timestamp |-> Str(<<"b","a","d">>), daysFiO2 |-> Num(50), daysVentPEEP |-> Num(5)],
     [timestamp |-> Str(<<"1","T","1","Z">>), daysFiO2 |-> Num(50), daysVentPEEP |-> Num(5)]}
    \cup {Merge([timestamp |-> t], r) :
            t \in NaiveTimestamps,
            r \in {[daysFiO2 |-> Num(50), daysVentPEEP |-> Num(5)],
                   [daysFiO2 |-> Str(<<"7","0">>), daysVentPEEP |-> Num(5)]}}

\* readings of an entry of the payload's vitals; the last one carries the keys
\* the handler does not copy
OtherReadingInputs ==
    {EmptyDict,
     [daysVentBreathSequence |-> Csv, daysHR |-> Num(100)],
     [daysVentBreathSequence |-> Csv, daysHR |-> None],
     [daysHR |-> Num(130)],
     [daysFiO2 |-> Num(50), daysVentPEEP |-> Num(5)]}

OtherVitalInputs ==
    {Merge([timestamp |-> t], r) : t \in NaiveTimestamps, r \in OtherReadingInputs}
    \cup {[timestamp |-> Str(<<"1","T","1","Z">>)],
          [timestamp |-> Str(<<"b","a","d">>), daysVentBreathSequence |-> Csv, daysHR |-> Num(100)],
          [daysVentBreathSequence |-> Csv, daysHR |-> Num(100)]}

\* medication names of a payload: None, empty, blank, padded, a noradrenaline name
MedNameInputs ==
    {None, Str(<<>>), Str(<<" "," ">>), Str(<<" ","A"," ">>), IVNoradrenaline}

OkLatestVital == [timestamp |-> Str(<<"1","T","1">>), daysFiO2 |-> Num(50), daysVentPEEP |-> Num(5)]

\* The bodies that are not a JSON object; every latestVital (or none) with every
\* list of other vitals, without medications and with one noradrenaline name;
\* every list of medication names with an eligible latestVital; payloads with
\* identity keys.
IsRequestInput(r) ==
    \/ r \in {InvalidBody, NoBody, JsonBody(None), JsonBody(EmptyDict), JsonBody(Str(<<"x">>))}
    \/ \E l \in OptionalKey("latestVital", LatestVitalInputs) :
       \E n \in 0..MaxVitals : \E v \in Lists(OtherVitalInputs, n) :
       \E m \in {EmptyDict, [medications |-> <<IVNoradrenaline>>]} :
          r = JsonBody(Merge(l, Merge([vitals |-> v], m)))
    \/ \E k \in 0..MaxMeds : \E m \in Lists(MedNameInputs, k) :
          r = JsonBody([latestVital |-> OkLatestVital,
                        vitals |-> <<[timestamp |-> Str(<<"1","T","0">>), daysHR |-> Num(130)]>>,
                        medications |-> m])
    \/ \E id \in {[name |-> Str(<<"A">>), lastName |-> Str(<<"B">>)],
                  [CPMRN |-> Str(<<"7">>), hospitalName |-> Str(<<"H">>),
                   unitName |-> Str(<<"U">>), bedNo |-> Str(<<"4">>)]} :
          r = JsonBody(Merge(id, [latestVital |-> OkLatestVital]))

InitCheck ==
    /\ IsRequestInput(request)
    /\ form_data = Pending
    /\ response = Pending
    /\ patient_json = Pending
    /\ check_date = None
    /\ pc = "check"
    /\ i = 1
    /\ latest_vital = 0
    /\ latest_timestamp = None
    /\ ret = Pending
    /\ exc = "none"

NextCheck == check \/ check_sbt_eligibility

SpecCheck == InitCheck /\ [][NextCheck]_vars

-----------------------------------------------------------------------------
(* Claims about the /check handler *)

Responded == pc = "responded"

\* the payload of the request, when its body is a JSON object
Payload ==
    IF "json" \in DOMAIN request /\ IsDict(request.json) THEN request.json ELSE EmptyDict

PayloadLatest == Get(Payload, "latestVital", EmptyDict)
PayloadOthers == Get(Payload, "vitals", <<>>)

\* the request has no body, a body that is not JSON, or no data in it
BodyMissingOrInvalid ==
    \/ request \in {InvalidBody, NoBody}
    \/ "json" \in DOMAIN request /\ ~Truthy(request.json)

\* C8: every request gets exactly one of: the Task as a success response when the
\* evaluator returns a Task; the criteria-not-met message, not an error, when it
\* returns Absent; a request error when the body is missing or invalid; a
\* server error with status 500 for any other failure.
C8_ResponseKinds ==
    Responded =>
        IF BodyMissingOrInvalid THEN response.status = 400
        ELSE IF IsTask(ret) THEN response = [body |-> ret, status |-> 200]
        ELSE IF ret = None THEN response = [body |-> NotEligible, status |-> 200]
        ELSE response.status = 500

\* one order per name that is not blank after trimming, in order, trimmed
RECURSIVE SpecMedOrders(_)
SpecMedOrders(names) ==
    IF names = <<>> THEN <<>>
    ELSE (IF Head(names) = None \/ Strip(Head(names).str) = <<>>
          THEN <<>>
          ELSE <<[name |-> Str(Strip(Head(names).str))]>>)
         \o SpecMedOrders(Tail(names))

\* C9: the record built from a payload has one medication order per name that is
\* non-blank after trimming, in payload order, with the trimmed name; its vitals
\* are the latestVital entry (when given) followed by the other vitals in payload
\* order, each with the key timestamp plus daysVentBreathSequence and daysHR only
\* when the payload entry has that key.
C9_ConstructedRecord ==
    request # NoRequest /\ patient_json # Pending =>
        LET built == patient_json["vitals"]
            off == IF PayloadLatest = EmptyDict THEN 0 ELSE 1
        IN  /\ patient_json["orders"]["active"]["medications"]
                  = SpecMedOrders(Get(Payload, "medications", <<>>))
            /\ Len(built) = off + Len(PayloadOthers)
            /\ off = 1 =>
                  \A key \in {"timestamp", "daysFiO2", "daysVentPEEP"} :
                      built[1][key] = Get(PayloadLatest, key, None)
            /\ \A k \in 1..Len(PayloadOthers) :
                  /\ DOMAIN built[off + k] =
                        {"timestamp"} \cup
                        (DOMAIN PayloadOthers[k] \cap {"daysVentBreathSequence", "daysHR"})
                  /\ built[off + k]["timestamp"] = Get(PayloadOthers[k], "timestamp", None)
                  /\ \A key \in DOMAIN built[off + k] \ {"timestamp"} :
                        built[off + k][key] = PayloadOthers[k][key]

\* C9 witness: a payload with a blank and a padded medication name and another
\* vital that has daysHR but no daysVentBreathSequence has been turned into a
\* record with the one trimmed order and a two-key entry after the latestVital's.
C9_Witness ==
    /\ pc = "start"
    /\ Get(Payload, "medications", <<>>) = <<Str(<<" "," ">>), Str(<<" ","A"," ">>)>>
    /\ patient_json["orders"]["active"]["medications"] = <<[name |-> Str(<<"A">>)]>>
    /\ Len(patient_json["vitals"]) = 2
    /\ DOMAIN patient_json["vitals"][2] = {"timestamp", "daysHR"}

\* an entry of the payload's other vitals was selected as the latest vital
OtherSelected == latest_vital > (IF PayloadLatest = EmptyDict THEN 0 ELSE 1)

NoOtherLater ==
    \A k \in 1..Len(PayloadOthers) :
        Parseable(PayloadOthers[k]) =>
            ~Before(Instant(TimestampOf(PayloadLatest)), Instant(TimestampOf(PayloadOthers[k])))

\* C10: a Task is the response only if latestVital has a parseable timestamp and
\* no other vital has a strictly later one; whenever another vital is selected as
\* the latest vital the response is the not-eligible message; on equal timestamps
\* the latestVital entry, first in the sequence, is the one selected.
C10_TaskOnlyFromLatestVital ==
    /\ Responded /\ IsTask(response.body) => Parseable(PayloadLatest) /\ NoOtherLater
    /\ Responded /\ exc = "none" /\ OtherSelected =>
          response = [body |-> NotEligible, status |-> 200]
    /\ pc = "gate1" /\ Parseable(PayloadLatest) /\ NoOtherLater => latest_vital = 1

\* C10 witness: latestVital passes gate 1, there is no medication, the one other
\* vital is later and carries nothing but its timestamp, and the answer is the
\* not-eligible message.
C10_Witness ==
    /\ Responded
    /\ PayloadLatest = [timestamp |-> Str(<<"1","T","0">>), daysFiO2 |-> Num(50), daysVentPEEP |-> Num(5)]
    /\ PayloadOthers = <<[timestamp |-> Str(<<"1","T","1">>)]>>
    /\ "medications" \notin DOMAIN Payload
    /\ latest_vital = 2
    /\ response = [body |-> NotEligible, status |-> 200]

\* C8 holds of every request whose body is JSON
Lemma_JsonBodies == "json" \in DOMAIN request => C8_ResponseKinds

====
